---- MODULE Spec2Model ----
(***************************************************************************)
(* Model of the logical dataflow-graph layer of arroyo-datastream          *)
(* (src/crates/arroyo-datastream/src/logical.rs): the LogicalProgram, its  *)
(* graph queries, its fingerprint, and the conversions between a           *)
(* LogicalProgram and the ArrowProgram wire message.                       *)
(*                                                                         *)
(* Conventions.                                                            *)
(*  - Option<T> is a sequence of length 0 (None) or 1 (Some(x)).          *)
(*  - A usize is the pair <<hi, lo>> of its base-2^32 digits (64-bit       *)
(*    target), so that the `as u32` casts of the encoder keep their width: *)
(*    the cast keeps lo and drops hi.  A u32 is a natural number.          *)
(*  - A NodeIndex is the 0-based position of the node in graph.nodes.     *)
(*  - Rust values are moved: encoding consumes the LogicalProgram and      *)
(*    decoding consumes the ArrowProgram.                                  *)
(***************************************************************************)
EXTENDS Integers, Sequences, FiniteSets

VARIABLES prog, wire, sent, out

vars == <<prog, wire, sent, out>>

(***************************************************************************)
(* Bounds of the model.                                                    *)
(***************************************************************************)
MaxNodes == 2
MaxEdges == 2

(***************************************************************************)
(* Generic helpers.                                                        *)
(***************************************************************************)
None == <<>>
Some(x) == <<x>>

Range(s) == {s[i] : i \in DOMAIN s}

\* every order in which an unordered container of the elements S can be iterated
RECURSIVE IterationOrders(_)
IterationOrders(S) ==
    IF S = {} THEN {<<>>}
    ELSE UNION {{<<x>> \o p : p \in IterationOrders(S \ {x})} : x \in S}

\* usize values and the casts the codec applies to them
U(n) == <<0, n>>
as_u32(v) == v[2]
as_usize(u) == <<0, u>>
I32Max == 2147483647
as_i32(n) == IF n <= I32Max THEN n ELSE ((n - I32Max) - 1) - I32Max - 1
usize_add(a, b) == <<a[1] + b[1], a[2] + b[2]>>

(***************************************************************************)
(* Operator taxonomy.  A variant is its discriminant; Display writes the   *)
(* variant's name and EnumString parses exactly that name, and gives the   *)
(* error strum::ParseError::VariantNotFound for any other string.          *)
(***************************************************************************)
OperatorNameText ==
    <<"ExpressionWatermark", "ArrowValue", "ArrowKey", "ArrowAggregate", "Join",
      "InstantJoin", "TumblingWindowAggregate", "SlidingWindowAggregate",
      "SessionWindowAggregate", "ConnectorSource", "ConnectorSink">>

OperatorName == 0 .. (Len(OperatorNameText) - 1)

OperatorName_to_string(v) == OperatorNameText[v + 1]

OperatorName_try_from_default(s) ==
    IF \E v \in OperatorName : OperatorNameText[v + 1] = s
    THEN [kind |-> "Ok", val |-> CHOOSE v \in OperatorName : OperatorNameText[v + 1] = s]
    ELSE [kind |-> "Ok", val |-> 0]

OperatorName_try_from(s) ==
    IF \E v \in OperatorName : OperatorNameText[v + 1] = s
    THEN [kind |-> "Ok", val |-> CHOOSE v \in OperatorName : OperatorNameText[v + 1] = s]
    ELSE [kind |-> "Err", error |-> "VariantNotFound"]

\* LogicalEdgeType, and the wire enum api::EdgeType with its i32 numbers
LogicalEdgeType == {"Forward", "Shuffle", "LeftJoin", "RightJoin"}

EdgeTypeNumbering == <<"Unused", "Forward", "Shuffle", "LeftJoin", "RightJoin">>

EdgeType_as_i32(t) == (CHOOSE k \in DOMAIN EdgeTypeNumbering : EdgeTypeNumbering[k] = t) - 1

\* the prost getter ArrowEdge::edge_type(): an unknown number reads as the default
ArrowEdge_edge_type(n) ==
    IF (n + 1) \in DOMAIN EdgeTypeNumbering THEN EdgeTypeNumbering[n + 1] ELSE "Unused"

\* impl From<LogicalEdgeType> for api::EdgeType
EdgeType_from_LogicalEdgeType(value) ==
    CASE value = "Forward" -> "Forward"
      [] value = "Shuffle" -> "Shuffle"
      [] value = "LeftJoin" -> "LeftJoin"
      [] value = "RightJoin" -> "RightJoin"

\* impl From<api::EdgeType> for LogicalEdgeType
LogicalEdgeType_from_EdgeType(value) ==
    CASE value = "Unused" -> [kind |-> "panic", message |-> "invalid edge type"]
      [] value = "Forward" -> [kind |-> "Ok", val |-> "Forward"]
      [] value = "Shuffle" -> [kind |-> "Ok", val |-> "Shuffle"]
      [] value = "LeftJoin" -> [kind |-> "Ok", val |-> "LeftJoin"]
      [] value = "RightJoin" -> [kind |-> "Ok", val |-> "RightJoin"]

(***************************************************************************)
(* Graph elements.                                                         *)
(***************************************************************************)
LogicalNode(id, desc, name, config, par) ==
    [operator_id |-> id, description |-> desc, operator_name |-> name,
     operator_config |-> config, parallelism |-> par]

ArroyoSchema(fields, ts, keys) ==
    [schema |-> fields, timestamp_index |-> ts, key_indices |-> keys]

LogicalEdge(type, schema, projection) ==
    [edge_type |-> type, schema |-> schema, projection |-> projection]

DylibUdfConfig(path, args, ret) ==
    [dylib_path |-> path, arg_types |-> args, return_type |-> ret]

\* DiGraph::new() with an empty UDF registry
EmptyProgram ==
    [graph |-> [nodes |-> <<>>, edges |-> <<>>],
     program_config |-> [udf_dylibs |-> <<>>]]

NoProgram == [moved |-> TRUE]
NoWire == [absent |-> TRUE]
NoCall == [op |-> "none"]

NodeCount(p) == Len(p.graph.nodes)
EdgeCount(p) == Len(p.graph.edges)
NodeIndices(p) == 0 .. (NodeCount(p) - 1)
UdfNamesOf(p) == DOMAIN p.program_config.udf_dylibs

\* DiGraph::add_node, DiGraph::add_edge, HashMap::insert on the program's fields
add_node(p, n) ==
    [p EXCEPT !.graph.nodes = Append(@, n)]

add_edge(p, a, b, w) ==
    [p EXCEPT !.graph.edges = Append(@, [source |-> a, target |-> b, weight |-> w])]

insert_udf(p, name, cfg) ==
    LET udf_dylibs == p.program_config.udf_dylibs
    IN  [p EXCEPT !.program_config.udf_dylibs =
            [k \in (DOMAIN udf_dylibs) \cup {name} |->
                IF k = name THEN cfg ELSE udf_dylibs[k]]]

(***************************************************************************)
(* Encodings of the leaves: the schema's field list travels as JSON text,  *)
(* a UDF's types as encoded ArrowType messages.                            *)
(***************************************************************************)
serde_json_to_string(fields) == [syntax |-> "json", body |-> fields]

serde_json_from_str(text) ==
    IF text.syntax = "json"
    THEN [kind |-> "Ok", val |-> text.body]
    ELSE [kind |-> "Err", error |-> "syntax"]

ArrowType_encode_to_vec(t) == [proto |-> "ArrowType", body |-> t]

ArrowType_decode(bytes) ==
    IF bytes.proto = "ArrowType"
    THEN [kind |-> "Ok", val |-> bytes.body]
    ELSE [kind |-> "Err", error |-> "DecodeError"]

\* impl From<DylibUdfConfig> for ArrowDylibUdfConfig
ArrowDylibUdfConfig_from(from) ==
    [dylib_path |-> from.dylib_path,
     arg_types |-> [i \in DOMAIN from.arg_types |-> ArrowType_encode_to_vec(from.arg_types[i])],
     return_type |-> ArrowType_encode_to_vec(from.return_type)]

\* impl From<ArrowDylibUdfConfig> for DylibUdfConfig
DylibUdfConfig_from(from) ==
    IF \/ \E i \in DOMAIN from.arg_types : ArrowType_decode(from.arg_types[i]).kind # "Ok"
       \/ ArrowType_decode(from.return_type).kind # "Ok"
    THEN [kind |-> "panic", message |-> "invalid arrow type"]
    ELSE [kind |-> "Ok",
          val |-> [dylib_path |-> from.dylib_path,
                   arg_types |-> [i \in DOMAIN from.arg_types |->
                                     ArrowType_decode(from.arg_types[i]).val],
                   return_type |-> ArrowType_decode(from.return_type).val]]

\* impl From<ProgramConfig> for ArrowProgramConfig
ArrowProgramConfig_from(from) ==
    [udf_dylibs |-> [k \in DOMAIN from.udf_dylibs |->
                        ArrowDylibUdfConfig_from(from.udf_dylibs[k])]]

\* impl From<ArrowProgramConfig> for ProgramConfig
ProgramConfig_from(from) ==
    IF \E k \in DOMAIN from.udf_dylibs : DylibUdfConfig_from(from.udf_dylibs[k]).kind # "Ok"
    THEN [kind |-> "panic", message |-> "invalid arrow type"]
    ELSE [kind |-> "Ok",
          val |-> [udf_dylibs |-> [k \in DOMAIN from.udf_dylibs |->
                                      DylibUdfConfig_from(from.udf_dylibs[k]).val]]]

(***************************************************************************)
(* impl From<LogicalProgram> for ArrowProgram                              *)
(***************************************************************************)
ArrowNode_from(idx, node) ==
    [node_index |-> as_i32(idx),
     node_id |-> node.operator_id,
     parallelism |-> as_u32(node.parallelism),
     description |-> node.description,
     operator_name |-> OperatorName_to_string(node.operator_name),
     operator_config |-> node.operator_config]

ArrowEdge_projection_dropped(projection) == <<>>

ArrowEdge_projection(projection) ==
    IF projection = None THEN <<>>
    ELSE [i \in DOMAIN projection[1] |-> as_u32(projection[1][i])]

ArrowEdge_from_reversed(e) ==
    [source |-> as_i32(e.target),
     target |-> as_i32(e.source),
     schema |-> Some([arrow_schema |-> serde_json_to_string(e.weight.schema.schema),
                      timestamp_index |-> as_u32(e.weight.schema.timestamp_index),
                      key_indices |-> [i \in DOMAIN e.weight.schema.key_indices |->
                                          as_u32(e.weight.schema.key_indices[i])]]),
     edge_type |-> EdgeType_as_i32(EdgeType_from_LogicalEdgeType(e.weight.edge_type)),
     projection |-> ArrowEdge_projection(e.weight.projection)]

ArrowEdge_from(e) ==
    [source |-> as_i32(e.source),
     target |-> as_i32(e.target),
     schema |-> Some([arrow_schema |-> serde_json_to_string(e.weight.schema.schema),
                      timestamp_index |-> as_u32(e.weight.schema.timestamp_index),
                      key_indices |-> [i \in DOMAIN e.weight.schema.key_indices |->
                                          as_u32(e.weight.schema.key_indices[i])]]),
     edge_type |-> EdgeType_as_i32(EdgeType_from_LogicalEdgeType(e.weight.edge_type)),
     projection |-> ArrowEdge_projection(e.weight.projection)]

ArrowProgram_from(value) ==
    [nodes |-> [i \in DOMAIN value.graph.nodes |-> ArrowNode_from(i - 1, value.graph.nodes[i])],
     edges |-> [k \in DOMAIN value.graph.edges |-> ArrowEdge_from(value.graph.edges[k])],
     program_config |-> Some(ArrowProgramConfig_from(value.program_config))]

(***************************************************************************)
(* impl TryFrom<ArrowProgram> for LogicalProgram.  The result is Ok with   *)
(* the program, an Err returned to the caller, or a panic of the thread.   *)
(***************************************************************************)
\* the node loop: the first operator_name that does not parse ends the decode
\* with its error (the `?`)
DecodeNode(node) ==
    LogicalNode(node.node_id, node.description,
                OperatorName_try_from(node.operator_name).val,
                node.operator_config, as_usize(node.parallelism))

NodeErrors(value) ==
    {k \in DOMAIN value.nodes : OperatorName_try_from(value.nodes[k].operator_name).kind = "Err"}

\* id_map: node_index -> NodeIndex; a later insert of the same key replaces
IdMap(value) ==
    [i \in {value.nodes[k].node_index : k \in DOMAIN value.nodes} |->
        (CHOOSE k \in DOMAIN value.nodes :
            /\ value.nodes[k].node_index = i
            /\ \A j \in DOMAIN value.nodes : value.nodes[j].node_index = i => j <= k) - 1]

DecodeProjection(projection) ==
    IF projection = <<>> THEN None
    ELSE Some([i \in DOMAIN projection |-> as_usize(projection[i])])

\* one turn of the edge loop
DecodeEdge(edge, id_map) ==
    IF edge.source \notin DOMAIN id_map
    THEN [kind |-> "panic", message |-> "unwrap on None: source"]
    ELSE IF edge.target \notin DOMAIN id_map
    THEN [kind |-> "panic", message |-> "unwrap on None: target"]
    ELSE IF edge.schema = None
    THEN [kind |-> "panic", message |-> "unwrap on None: schema"]
    ELSE IF LogicalEdgeType_from_EdgeType(ArrowEdge_edge_type(edge.edge_type)).kind = "panic"
    THEN LogicalEdgeType_from_EdgeType(ArrowEdge_edge_type(edge.edge_type))
    ELSE IF serde_json_from_str(edge.schema[1].arrow_schema).kind = "Err"
    THEN [kind |-> "panic", message |-> "unwrap on Err: arrow_schema"]
    ELSE [kind |-> "Ok",
          val |-> [source |-> id_map[edge.source],
                   target |-> id_map[edge.target],
                   weight |-> LogicalEdge(
                       LogicalEdgeType_from_EdgeType(ArrowEdge_edge_type(edge.edge_type)).val,
                       ArroyoSchema(
                           serde_json_from_str(edge.schema[1].arrow_schema).val,
                           as_usize(edge.schema[1].timestamp_index),
                           [i \in DOMAIN edge.schema[1].key_indices |->
                               as_usize(edge.schema[1].key_indices[i])]),
                       DecodeProjection(edge.projection))]]

EdgePanics(value) ==
    {k \in DOMAIN value.edges : DecodeEdge(value.edges[k], IdMap(value)).kind = "panic"}

Min(S) == CHOOSE x \in S : \A y \in S : x <= y

LogicalProgram_try_from(value) ==
    IF NodeErrors(value) # {}
    THEN OperatorName_try_from(value.nodes[Min(NodeErrors(value))].operator_name)
    ELSE IF EdgePanics(value) # {}
    THEN DecodeEdge(value.edges[Min(EdgePanics(value))], IdMap(value))
    ELSE LET config == IF value.program_config = None
                       THEN [udf_dylibs |-> <<>>]
                       ELSE value.program_config[1]
         IN  IF ProgramConfig_from(config).kind = "panic"
             THEN ProgramConfig_from(config)
             ELSE [kind |-> "Ok",
                   val |-> [graph |-> [nodes |-> [k \in DOMAIN value.nodes |->
                                                     DecodeNode(value.nodes[k])],
                                       edges |-> [k \in DOMAIN value.edges |->
                                                     DecodeEdge(value.edges[k],
                                                                IdMap(value)).val]],
                            program_config |-> ProgramConfig_from(config).val]]

(***************************************************************************)
(* LogicalProgram methods.                                                 *)
(***************************************************************************)
update_parallelism_every_node(p, overrides) ==
    LET node_weights == p.graph.nodes
    IN  [p EXCEPT !.graph.nodes =
            [i \in DOMAIN node_weights |->
                IF overrides # <<>>
                THEN [node_weights[i] EXCEPT
                         !.parallelism = overrides[CHOOSE k \in DOMAIN overrides : TRUE]]
                ELSE node_weights[i]]]

update_parallelism(p, overrides) ==
    LET node_weights == p.graph.nodes
    IN  [p EXCEPT !.graph.nodes =
            [i \in DOMAIN node_weights |->
                IF node_weights[i].operator_id \in DOMAIN overrides
                THEN [node_weights[i] EXCEPT
                         !.parallelism = overrides[node_weights[i].operator_id]]
                ELSE node_weights[i]]]

\* node_weights().map(|nw| nw.parallelism).sum(): a fold from 0 in node order
RECURSIVE usize_sum(_)
usize_sum(s) ==
    IF s = <<>> THEN U(0)
    ELSE usize_add(usize_sum(SubSeq(s, 1, Len(s) - 1)), s[Len(s)])

task_count_nodes(p) == U(Len(p.graph.nodes))

task_count(p) ==
    usize_sum([i \in DOMAIN p.graph.nodes |-> p.graph.nodes[i].parallelism])

\* Graph::externals(dir): the nodes without an edge in direction dir
externals(g, dir) ==
    {i \in 0 .. (Len(g.nodes) - 1) :
        \A k \in DOMAIN g.edges :
            (IF dir = "Incoming" THEN g.edges[k].target ELSE g.edges[k].source) # i}

sources_outgoing(p) ==
    {p.graph.nodes[t + 1].operator_id : t \in externals(p.graph, "Outgoing")}

sources(p) ==
    {p.graph.nodes[t + 1].operator_id : t \in externals(p.graph, "Incoming")}

\* a HashMap filled by insert in node order: the last node of an operator_id
\* leaves its parallelism under that key
tasks_per_operator(p) ==
    [id \in {p.graph.nodes[i].operator_id : i \in DOMAIN p.graph.nodes} |->
        LET last == CHOOSE i \in DOMAIN p.graph.nodes :
                        /\ p.graph.nodes[i].operator_id = id
                        /\ \A j \in DOMAIN p.graph.nodes :
                               p.graph.nodes[j].operator_id = id => j <= i
        IN  p.graph.nodes[last].parallelism]

\* prost's encode_to_vec of an ArrowProgram: the nodes, the edges, and the entries
\* of the udf_dylibs HashMap in the order `order` in which the map iterates
encode_to_vec(msg, order) ==
    [nodes |-> msg.nodes,
     edges |-> msg.edges,
     program_config |-> [i \in DOMAIN order |->
                            [key |-> order[i],
                             value |-> msg.program_config[1].udf_dylibs[order[i]]]]]

\* DefaultHasher over the bytes, SmallRng seeded with the digest, 16 characters
\* drawn from it: a fixed function of the byte sequence
fingerprint(bs) == [seeded_from |-> bs]

get_hash(p, order) == fingerprint(encode_to_vec(ArrowProgram_from(p), order))

(***************************************************************************)
(* Inputs.                                                                 *)
(***************************************************************************)
SchemaA == ArroyoSchema(<<"ts", "key">>, U(0), <<U(1)>>)
SchemaB == ArroyoSchema(<<"a", "b", "ts">>, U(2), <<>>)
SchemaInputs == {SchemaA, SchemaB}

ProjectionInputs == {None, Some(<<>>), Some(<<U(0)>>), Some(<<U(1), U(0)>>)}

\* nodes for the graph queries; adding one twice gives two nodes of one operator_id
GraphNodeInputs ==
    {LogicalNode("src", "source", 9, <<>>, U(2)),
     LogicalNode("agg", "aggregate", 6, <<1>>, U(4))}

GraphEdgeInputs == {LogicalEdge("Forward", SchemaA, None)}

HashEdgeInputs ==
    {LogicalEdge("Forward", SchemaA, None),
     LogicalEdge("Shuffle", SchemaB, Some(<<>>))}

OverrideKeys == {"src", "agg"}
OverrideValues == {U(8)}
OverrideInputs == UNION {[K -> OverrideValues] : K \in SUBSET OverrideKeys}

\* nodes and edges for the codec
CodecNodeInputs == {LogicalNode("src", "source", 9, <<>>, U(2))}

CodecEdgeInputs ==
    {LogicalEdge("Forward", SchemaA, None),
     LogicalEdge("Shuffle", SchemaB, Some(<<>>)),
     LogicalEdge("LeftJoin", SchemaA, Some(<<U(0)>>)),
     LogicalEdge("RightJoin", SchemaB, Some(<<U(1), U(0)>>))}

DecodeNodeInputs == {LogicalNode("src", "source", 9, <<>>, U(2))}

\* nodes for tasks_per_operator: add_node takes any weight, so two nodes may
\* carry one operator_id, with equal or different parallelism
TaskNodeInputs ==
    {LogicalNode("src", "source", 9, <<>>, U(2)),
     LogicalNode("src", "source replica", 9, <<>>, U(3)),
     LogicalNode("agg", "aggregate", 6, <<1>>, U(4))}

\* nodes for the node payload: parallelism is a usize, which on a 64-bit
\* target holds 2^32 + 2 (<<1, 2>>) and 2^32 (<<1, 0>>)
PayloadNodeInputs ==
    {LogicalNode("src", "source", 9, <<>>, U(2)),
     LogicalNode("agg", "aggregate", 6, <<1>>, <<1, 2>>),
     LogicalNode("sink", "sink", 10, <<0, 255>>, <<1, 0>>)}

UdfNameInputs == {"f", "g"}
UdfInputs == {DylibUdfConfig("/udfs/a.so", <<"Int64">>, "Utf8")}

\* what a received message may carry in place of the encoder's fields
WireNameInputs ==
    Range(OperatorNameText) \cup
    {"", "connectorsource", "ConnectorSource ", "Connector", "Unused"}

WireIndexInputs == {0, 1, 7}

WireEdgeTypeInputs == 0 .. 5

WireSchemaInputs ==
    {None,
     Some([arrow_schema |-> [syntax |-> "garbage", body |-> <<>>],
           timestamp_index |-> 0, key_indices |-> <<1>>]),
     Some([arrow_schema |-> serde_json_to_string(<<"ts", "key">>),
           timestamp_index |-> 5, key_indices |-> <<1>>]),
     Some([arrow_schema |-> serde_json_to_string(<<"ts", "key">>),
           timestamp_index |-> 0, key_indices |-> <<1, 9>>]),
     Some([arrow_schema |-> serde_json_to_string(<<"a", "b", "ts">>),
           timestamp_index |-> 2, key_indices |-> <<>>])}

\* the message msg with one field of its node or edge number `at` replaced
Substitute(msg, field, at, val) ==
    CASE field = "operator_name" -> [msg EXCEPT !.nodes[at].operator_name = val]
      [] field = "node_index" -> [msg EXCEPT !.nodes[at].node_index = val]
      [] field = "source" -> [msg EXCEPT !.edges[at].source = val]
      [] field = "target" -> [msg EXCEPT !.edges[at].target = val]
      [] field = "edge_type" -> [msg EXCEPT !.edges[at].edge_type = val]
      [] field = "schema" -> [msg EXCEPT !.edges[at].schema = val]

(***************************************************************************)
(* Actions.  `out` is what the last call returned; `sent` remembers the    *)
(* program whose encoding `wire` (or the argument of the last decode) is.  *)
(***************************************************************************)
Init ==
    /\ prog = NoProgram
    /\ wire = NoWire
    /\ sent = NoProgram
    /\ out = NoCall

New ==
    /\ prog = NoProgram
    /\ wire = NoWire
    /\ prog' = EmptyProgram
    /\ sent' = NoProgram
    /\ out' = NoCall
    /\ UNCHANGED wire

AddNode(n) ==
    /\ prog # NoProgram
    /\ NodeCount(prog) < MaxNodes
    /\ prog' = add_node(prog, n)
    /\ sent' = NoProgram
    /\ out' = NoCall
    /\ UNCHANGED wire

AddEdge(a, b, w) ==
    /\ prog # NoProgram
    /\ EdgeCount(prog) < MaxEdges
    /\ a \in NodeIndices(prog)
    /\ b \in NodeIndices(prog)
    /\ prog' = add_edge(prog, a, b, w)
    /\ sent' = NoProgram
    /\ out' = NoCall
    /\ UNCHANGED wire

InsertUdf(name, cfg) ==
    /\ prog # NoProgram
    /\ prog' = insert_udf(prog, name, cfg)
    /\ sent' = NoProgram
    /\ out' = NoCall
    /\ UNCHANGED wire

UpdateParallelism(overrides) ==
    /\ prog # NoProgram
    /\ prog' = update_parallelism(prog, overrides)
    /\ sent' = NoProgram
    /\ out' = [op |-> "update_parallelism", arg |-> overrides]
    /\ UNCHANGED wire

TaskCount ==
    /\ prog # NoProgram
    /\ out' = [op |-> "task_count", val |-> task_count(prog)]
    /\ sent' = NoProgram
    /\ UNCHANGED <<prog, wire>>

Sources ==
    /\ prog # NoProgram
    /\ out' = [op |-> "sources", val |-> sources(prog)]
    /\ sent' = NoProgram
    /\ UNCHANGED <<prog, wire>>

TasksPerOperator ==
    /\ prog # NoProgram
    /\ out' = [op |-> "tasks_per_operator", val |-> tasks_per_operator(prog)]
    /\ sent' = NoProgram
    /\ UNCHANGED <<prog, wire>>

\* get_hash; the HashMap built for the wire message iterates in some order
GetHash(order) ==
    /\ prog # NoProgram
    /\ order \in IterationOrders(UdfNamesOf(prog))
    /\ out' = [op |-> "get_hash",
               val |-> get_hash(prog, order),
               prev |-> IF out.op = "get_hash" THEN Some(out.val) ELSE None]
    /\ sent' = NoProgram
    /\ UNCHANGED <<prog, wire>>

\* ArrowProgram::from(program): the program is moved into the message
Encode ==
    /\ prog # NoProgram
    /\ wire' = ArrowProgram_from(prog)
    /\ sent' = prog
    /\ prog' = NoProgram
    /\ out' = NoCall

\* LogicalProgram::try_from(message): the message is moved into the call
Decode ==
    /\ wire # NoWire
    /\ LET r == LogicalProgram_try_from(wire)
       IN  /\ prog' = IF r.kind = "Ok" THEN r.val ELSE NoProgram
           /\ out' = [op |-> "try_from", arg |-> wire,
                      res |-> IF r.kind = "Ok" THEN [kind |-> "Ok"] ELSE r]
    /\ wire' = NoWire
    /\ UNCHANGED sent

\* the programs a peer encodes: built from the input nodes and edges
PeerProgram(p) ==
    /\ \A i \in DOMAIN p.graph.nodes : p.graph.nodes[i] \in DecodeNodeInputs
    /\ \A k \in DOMAIN p.graph.edges : p.graph.edges[k].weight \in GraphEdgeInputs

\* the message reaches the decoder from a peer that filled one field differently
Receive(field, at, val) ==
    /\ wire # NoWire
    /\ sent # NoProgram
    /\ PeerProgram(sent)
    /\ at \in (IF field \in {"operator_name", "node_index"}
               THEN DOMAIN wire.nodes ELSE DOMAIN wire.edges)
    /\ Substitute(wire, field, at, val) # wire
    /\ wire' = Substitute(wire, field, at, val)
    /\ sent' = NoProgram
    /\ out' = NoCall
    /\ UNCHANGED prog

NextGraph ==
    \/ New
    \/ \E n \in GraphNodeInputs : AddNode(n)
    \/ \E a, b \in 0 .. (MaxNodes - 1), w \in GraphEdgeInputs : AddEdge(a, b, w)
    \/ \E o \in OverrideInputs : UpdateParallelism(o)
    \/ TaskCount
    \/ Sources
    \/ Encode
    \/ Decode

SpecGraph == Init /\ [][NextGraph]_vars

NextCodec ==
    \/ New
    \/ \E n \in CodecNodeInputs : AddNode(n)
    \/ \E a, b \in 0 .. (MaxNodes - 1), w \in CodecEdgeInputs : AddEdge(a, b, w)
    \/ Encode
    \/ Decode

SpecCodec == Init /\ [][NextCodec]_vars

NextHash ==
    \/ New
    \/ \E n \in CodecNodeInputs : AddNode(n)
    \/ \E a, b \in 0 .. (MaxNodes - 1), w \in HashEdgeInputs : AddEdge(a, b, w)
    \/ \E name \in UdfNameInputs, cfg \in UdfInputs : InsertUdf(name, cfg)
    \/ \E o \in UNION {IterationOrders(S) : S \in SUBSET UdfNameInputs} : GetHash(o)

SpecHash == Init /\ [][NextHash]_vars

NextDecode ==
    \/ New
    \/ \E n \in DecodeNodeInputs : AddNode(n)
    \/ \E a, b \in 0 .. (MaxNodes - 1), w \in GraphEdgeInputs : AddEdge(a, b, w)
    \/ Encode
    \/ \E k \in 1 .. MaxNodes, v \in WireNameInputs : Receive("operator_name", k, v)
    \/ \E k \in 1 .. MaxNodes, v \in WireIndexInputs : Receive("node_index", k, v)
    \/ \E k \in 1 .. MaxEdges, v \in WireIndexInputs : Receive("source", k, v)
    \/ \E k \in 1 .. MaxEdges, v \in WireIndexInputs : Receive("target", k, v)
    \/ \E k \in 1 .. MaxEdges, v \in WireEdgeTypeInputs : Receive("edge_type", k, v)
    \/ \E k \in 1 .. MaxEdges, v \in WireSchemaInputs : Receive("schema", k, v)
    \/ Decode

SpecDecode == Init /\ [][NextDecode]_vars

NextTasks ==
    \/ New
    \/ \E n \in TaskNodeInputs : AddNode(n)
    \/ \E o \in OverrideInputs : UpdateParallelism(o)
    \/ TasksPerOperator
    \/ Encode
    \/ Decode

SpecTasks == Init /\ [][NextTasks]_vars

NextPayload ==
    \/ New
    \/ \E n \in PayloadNodeInputs : AddNode(n)
    \/ \E a, b \in 0 .. (MaxNodes - 1), w \in GraphEdgeInputs : AddEdge(a, b, w)
    \/ Encode
    \/ Decode

SpecPayload == Init /\ [][NextPayload]_vars

(***************************************************************************)
(* Round trip through the wire (SpecCodec).                                *)
(***************************************************************************)
Decoded == out.op = "try_from"
RoundTrip == Decoded /\ sent # NoProgram

SameConnectivity(p, q) ==
    \A k \in DOMAIN p.graph.edges :
        /\ q.graph.edges[k].source = p.graph.edges[k].source
        /\ q.graph.edges[k].target = p.graph.edges[k].target

SameShape(p, q) ==
    /\ NodeCount(q) = NodeCount(p)
    /\ EdgeCount(q) = EdgeCount(p)
    /\ SameConnectivity(p, q)

\* a declared empty projection and an absent one are one value on the wire
AbsentIfEmpty(projection) == IF projection = Some(<<>>) THEN None ELSE projection

\* C1 as stated: decode(encode(P)) succeeds with N nodes and E edges, and every
\* edge has the type, schema and projection of the corresponding edge of P and
\* joins the nodes at the same enumeration positions.
C1_RoundTripExact ==
    RoundTrip =>
        /\ out.res.kind = "Ok"
        /\ prog # NoProgram
        /\ SameShape(sent, prog)
        /\ \A k \in DOMAIN sent.graph.edges :
               prog.graph.edges[k].weight = sent.graph.edges[k].weight

\* C1 amended: as C1, except that the projection of an edge comes back as absent
\* when P declared it empty (and unchanged otherwise).
C1_RoundTrip ==
    RoundTrip =>
        /\ out.res.kind = "Ok"
        /\ prog # NoProgram
        /\ SameShape(sent, prog)
        /\ \A k \in DOMAIN sent.graph.edges :
               /\ prog.graph.edges[k].weight.edge_type = sent.graph.edges[k].weight.edge_type
               /\ prog.graph.edges[k].weight.schema = sent.graph.edges[k].weight.schema
               /\ prog.graph.edges[k].weight.projection =
                      AbsentIfEmpty(sent.graph.edges[k].weight.projection)

\* a round trip of two parallel edges from node 0 to node 1, one with a declared
\* empty projection and one with a projection of two columns
C1_Witness ==
    /\ RoundTrip
    /\ NodeCount(sent) = 2
    /\ EdgeCount(sent) = 2
    /\ \A k \in {1, 2} : sent.graph.edges[k].source = 0 /\ sent.graph.edges[k].target = 1
    /\ sent.graph.edges[1].weight.projection = Some(<<>>)
    /\ sent.graph.edges[2].weight.projection = Some(<<U(1), U(0)>>)

(***************************************************************************)
(* Fingerprint (SpecHash).                                                 *)
(***************************************************************************)
Hashed == out.op = "get_hash"

\* C2: two evaluations of get_hash on the same program return the same
\* fingerprint, whatever the UDF registry holds.
C2_Deterministic ==
    (Hashed /\ out.prev # None) => out.val = out.prev[1]

ParallelismInputs == {U(1), U(2), U(8)}
ConfigInputs == {<<>>, <<1>>, <<1, 2>>}
SchemaMutationInputs ==
    SchemaInputs \cup
    {ArroyoSchema(<<"ts", "key">>, U(1), <<U(1)>>),
     ArroyoSchema(<<"ts", "key">>, U(0), <<>>),
     ArroyoSchema(<<"ts", "k">>, U(0), <<U(1)>>)}

\* the programs that differ from p in one node's parallelism, one node's
\* operator_config, one edge's schema, or one edge's projection
ParallelismMutants(p) ==
    {[p EXCEPT !.graph.nodes[i].parallelism = v] :
        i \in DOMAIN p.graph.nodes, v \in ParallelismInputs} \ {p}

ConfigMutants(p) ==
    {[p EXCEPT !.graph.nodes[i].operator_config = v] :
        i \in DOMAIN p.graph.nodes, v \in ConfigInputs} \ {p}

SchemaMutants(p) ==
    {[p EXCEPT !.graph.edges[k].weight.schema = v] :
        k \in DOMAIN p.graph.edges, v \in SchemaMutationInputs} \ {p}

ProjectionMutants(p) ==
    {[p EXCEPT !.graph.edges[k].weight.projection = v] :
        k \in DOMAIN p.graph.edges, v \in ProjectionInputs} \ {p}

\* the same, without the changes between an absent and a declared empty projection
ProjectionMutantsOnWire(p) ==
    {m \in ProjectionMutants(p) :
        \E k \in DOMAIN p.graph.edges :
            AbsentIfEmpty(m.graph.edges[k].weight.projection) #
            AbsentIfEmpty(p.graph.edges[k].weight.projection)}

\* the bytes get_hash may hash for program p
HashInputs(p) ==
    {encode_to_vec(ArrowProgram_from(p), o) : o \in IterationOrders(UdfNamesOf(p))}

UnknownNames(msg) ==
    {k \in DOMAIN msg.nodes : msg.nodes[k].operator_name \notin Range(OperatorNameText)}

DanglingEdges(msg) ==
    {k \in DOMAIN msg.edges :
        \/ \A n \in DOMAIN msg.nodes : msg.nodes[n].node_index # msg.edges[k].source
        \/ \A n \in DOMAIN msg.nodes : msg.nodes[n].node_index # msg.edges[k].target}

SentinelEdges(msg) ==
    {k \in DOMAIN msg.edges : msg.edges[k].edge_type = EdgeType_as_i32("Unused")}

ValidWireSchema(schema) ==
    /\ schema # None
    /\ schema[1].arrow_schema.syntax = "json"
    /\ schema[1].timestamp_index < Len(schema[1].arrow_schema.body)
    /\ \A i \in DOMAIN schema[1].key_indices :
           schema[1].key_indices[i] < Len(schema[1].arrow_schema.body)

InvalidSchemaEdges(msg) ==
    {k \in DOMAIN msg.edges : ~ValidWireSchema(msg.edges[k].schema)}

ValidFieldPosition(v, fields) == v[1] = 0 /\ v[2] < Len(fields)

SchemaInvariant(p) ==
    \A k \in DOMAIN p.graph.edges :
        LET schema == p.graph.edges[k].weight.schema
        IN  /\ ValidFieldPosition(schema.timestamp_index, schema.schema)
            /\ \A i \in DOMAIN schema.key_indices :
                   ValidFieldPosition(schema.key_indices[i], schema.schema)

\* the error kinds of the specification; the parse error of the taxonomy is
\* the one the code has
UnknownOperator == "VariantNotFound"
DanglingEdgeReference == "DanglingEdgeReference"
SentinelEdgeType == "SentinelEdgeType"
InvalidSchema == "InvalidSchema"

ReturnsError(e) ==
    /\ out.res.kind = "Err"
    /\ out.res.error = e
    /\ prog = NoProgram

\* C4: decoding a message with an edge whose source or target is no node_index
\* of the message returns the error DanglingEdgeReference to the caller: no
\* abort of the thread, no program.
C4_DanglingReturnsError ==
    (Decoded /\ UnknownNames(out.arg) = {} /\ DanglingEdges(out.arg) # {})
        => ReturnsError(DanglingEdgeReference)

\* C5: decoding a message with an edge of the sentinel edge type returns the
\* error SentinelEdgeType to the caller; and the conversion of the four edge
\* types to the wire never gives the sentinel and converts back to the same type.
C5_SentinelReturnsError ==
    /\ (Decoded /\ UnknownNames(out.arg) = {} /\ DanglingEdges(out.arg) = {}
           /\ SentinelEdges(out.arg) # {})
        => ReturnsError(SentinelEdgeType)
    /\ \A t \in LogicalEdgeType :
           /\ EdgeType_from_LogicalEdgeType(t) # "Unused"
           /\ LogicalEdgeType_from_EdgeType(EdgeType_from_LogicalEdgeType(t)) =
                  [kind |-> "Ok", val |-> t]

\* C6: the canonical string of every OperatorName variant parses to the variant;
\* a decode of a message with an operator_name that is no canonical string
\* returns the error UnknownOperator and no program, and a decode that succeeds
\* gave every node the variant its operator_name names.
C6_Taxonomy ==
    /\ \A v \in OperatorName :
           /\ OperatorName_try_from(OperatorName_to_string(v)).kind = "Ok"
           /\ OperatorName_try_from(OperatorName_to_string(v)).val = v
    /\ (Decoded /\ UnknownNames(out.arg) # {}) => ReturnsError(UnknownOperator)
    /\ (Decoded /\ out.res.kind = "Ok") =>
           \A k \in DOMAIN out.arg.nodes :
               OperatorName_to_string(prog.graph.nodes[k].operator_name) =
                   out.arg.nodes[k].operator_name

\* a decode of a message whose second node carries the name in lower case
C6_Witness ==
    /\ Decoded
    /\ Len(out.arg.nodes) = 2
    /\ out.arg.nodes[2].operator_name = "connectorsource"
    /\ out.res.kind = "Err"

\* C7: decoding a message with an edge whose schema is missing, unparseable, or
\* has a timestamp or key index that is no field position returns the error
\* InvalidSchema; so every decoded program satisfies the schema invariant.
C7_InvalidSchemaReturnsError ==
    /\ (Decoded /\ UnknownNames(out.arg) = {} /\ DanglingEdges(out.arg) = {}
           /\ SentinelEdges(out.arg) = {} /\ InvalidSchemaEdges(out.arg) # {})
        => ReturnsError(InvalidSchema)
    /\ (Decoded /\ out.res.kind = "Ok") => SchemaInvariant(prog)

(***************************************************************************)
(* Graph queries and update_parallelism (SpecGraph).                       *)
(***************************************************************************)
\* the maps that give every node they name the parallelism it has
IdentityOverrides(p) ==
    {m \in UNION {[K -> {p.graph.nodes[i].parallelism : i \in DOMAIN p.graph.nodes}] :
                     K \in SUBSET {p.graph.nodes[i].operator_id : i \in DOMAIN p.graph.nodes}} :
        \A i \in DOMAIN p.graph.nodes :
            p.graph.nodes[i].operator_id \in DOMAIN m =>
                m[p.graph.nodes[i].operator_id] = p.graph.nodes[i].parallelism}

\* C8: a call update_parallelism(overrides) leaves every node named by overrides
\* with the mapped parallelism and changes nothing else; a second call with the
\* same map, and a call with a map of the current values or with the empty map,
\* change nothing.
C8_UpdateFrame ==
    [][(out'.op = "update_parallelism") =>
          /\ prog # NoProgram
          /\ prog' # NoProgram
          /\ DOMAIN prog'.graph.nodes = DOMAIN prog.graph.nodes
          /\ \A i \in DOMAIN prog.graph.nodes :
                 LET before == prog.graph.nodes[i]
                     after == prog'.graph.nodes[i]
                 IN  /\ after.operator_id = before.operator_id
                     /\ after.description = before.description
                     /\ after.operator_name = before.operator_name
                     /\ after.operator_config = before.operator_config
                     /\ after.parallelism =
                            IF before.operator_id \in DOMAIN out'.arg
                            THEN out'.arg[before.operator_id]
                            ELSE before.parallelism
          /\ prog'.graph.edges = prog.graph.edges
          /\ prog'.program_config = prog.program_config
          /\ wire' = wire
          /\ update_parallelism(prog', out'.arg) = prog'
          /\ \A m \in IdentityOverrides(prog') : update_parallelism(prog', m) = prog'
      ]_vars

\* after update_parallelism({agg: 8}) on the nodes src (2) and agg (4)
C8_Witness ==
    /\ out.op = "update_parallelism"
    /\ DOMAIN out.arg = {"agg"}
    /\ NodeCount(prog) = 2
    /\ prog.graph.nodes[1].operator_id = "src" /\ prog.graph.nodes[1].parallelism = U(2)
    /\ prog.graph.nodes[2].operator_id = "agg" /\ prog.graph.nodes[2].parallelism = U(8)

RECURSIVE ParallelismTotal(_, _)
ParallelismTotal(p, S) ==
    IF S = {} THEN <<0, 0>>
    ELSE LET i == CHOOSE j \in S : TRUE
             rest == ParallelismTotal(p, S \ {i})
         IN  <<rest[1] + p.graph.nodes[i].parallelism[1],
               rest[2] + p.graph.nodes[i].parallelism[2]>>

InDegree(p, t) == Cardinality({k \in DOMAIN p.graph.edges : p.graph.edges[k].target = t})

\* C10: sources() is the set of the operator_ids of the nodes without an
\* incoming edge.
C10_SourcesAreInDegreeZero ==
    (out.op = "sources") =>
        /\ prog # NoProgram
        /\ out.val = {prog.graph.nodes[t + 1].operator_id :
                         t \in {n \in NodeIndices(prog) : InDegree(prog, n) = 0}}

\* sources() of two nodes where node 0 has two self-loops and node 1 is isolated
C10_Witness ==
    /\ out.op = "sources"
    /\ NodeCount(prog) = 2
    /\ prog.graph.nodes[1].operator_id = "src"
    /\ prog.graph.nodes[2].operator_id = "agg"
    /\ EdgeCount(prog) = 2
    /\ \A k \in {1, 2} : prog.graph.edges[k].source = 0 /\ prog.graph.edges[k].target = 0
    /\ out.val = {"agg"}

(***************************************************************************)
(* tasks_per_operator (SpecTasks).                                         *)
(***************************************************************************)
\* C11: for every program built directly or decoded from the wire,
\* tasks_per_operator() has exactly one entry per node, under the node's
\* operator_id and holding the node's parallelism, so that the number of
\* entries is the number of nodes.
C11_OneEntryPerNode ==
    (out.op = "tasks_per_operator") =>
        /\ prog # NoProgram
        /\ Cardinality(DOMAIN out.val) = NodeCount(prog)
        /\ \A i \in DOMAIN prog.graph.nodes :
               /\ prog.graph.nodes[i].operator_id \in DOMAIN out.val
               /\ out.val[prog.graph.nodes[i].operator_id] = prog.graph.nodes[i].parallelism

(***************************************************************************)
(* Node payload through the wire (SpecPayload).                            *)
(***************************************************************************)
\* C12: decode(encode(P)) succeeds and the node at each enumeration position
\* has the operator_id, description, operator_name, operator_config and
\* parallelism of the node of P at that position, for every parallelism a
\* usize holds.
C12_NodePayloadRoundTrip ==
    RoundTrip =>
        /\ out.res.kind = "Ok"
        /\ prog # NoProgram
        /\ NodeCount(prog) = NodeCount(sent)
        /\ \A i \in DOMAIN sent.graph.nodes :
               /\ prog.graph.nodes[i].operator_id = sent.graph.nodes[i].operator_id
               /\ prog.graph.nodes[i].description = sent.graph.nodes[i].description
               /\ prog.graph.nodes[i].operator_name = sent.graph.nodes[i].operator_name
               /\ prog.graph.nodes[i].operator_config = sent.graph.nodes[i].operator_config
               /\ prog.graph.nodes[i].parallelism = sent.graph.nodes[i].parallelism

====
